---- MODULE Spec2Model ----
(***************************************************************************)
(* Model of the two extension points of the neuralhydrology tutorials:     *)
(*   - the GRU model adapter (constructor, forward pass), and              *)
(*   - the CAMELS-CL dataset adapter (time series loader, attribute        *)
(*     loader, CamelsCL class, get_dataset registry).                      *)
(* Tensors are modelled symbolically: a tensor is a nested sequence whose  *)
(* innermost entries are tuples that name the entry's origin, so that the  *)
(* layout produced by transpose / unsqueeze / repeat / cat can be compared *)
(* entry by entry.                                                         *)
(***************************************************************************)
EXTENDS Integers, Sequences, FiniteSets, TLC

VARIABLES cfg, gru, data, gru_in, pred, head_out, fs, ds, io, ret, heap, calls

vars == <<cfg, gru, data, gru_in, pred, head_out, fs, ds, io, ret, heap, calls>>

modelVars == <<gru, data, gru_in, pred, head_out>>

dataVars == <<fs, ds, io, ret>>

callVars == <<heap, calls>>

(***************************************************************************)
(* Bounds                                                                  *)
(***************************************************************************)
MaxBatch == 2

MaxSeqLen == 2

MaxBasins == 2

MaxStatic == 3

(***************************************************************************)
(* Strings whose characters matter are sequences of one-character strings. *)
(***************************************************************************)
UpperToLower ==
  [c \in {"A","B","C","D","E","F","G","H","I","J","K","L","M",
           "N","O","P","Q","R","S","T","U","V","W","X","Y","Z"} |->
     CASE c = "A" -> "a" [] c = "B" -> "b" [] c = "C" -> "c" [] c = "D" -> "d"
       [] c = "E" -> "e" [] c = "F" -> "f" [] c = "G" -> "g" [] c = "H" -> "h"
       [] c = "I" -> "i" [] c = "J" -> "j" [] c = "K" -> "k" [] c = "L" -> "l"
       [] c = "M" -> "m" [] c = "N" -> "n" [] c = "O" -> "o" [] c = "P" -> "p"
       [] c = "Q" -> "q" [] c = "R" -> "r" [] c = "S" -> "s" [] c = "T" -> "t"
       [] c = "U" -> "u" [] c = "V" -> "v" [] c = "W" -> "w" [] c = "X" -> "x"
       [] c = "Y" -> "y" [] c = "Z" -> "z"]

\* str.lower()
lower(s) ==
  [i \in 1..Len(s) |-> IF s[i] \in DOMAIN UpperToLower THEN UpperToLower[s[i]] ELSE s[i]]

HeadNames ==
  { <<"r","e","g","r","e","s","s","i","o","n">>,
    <<"g","m","m">>,
    <<"u","m","a","l">>,
    <<"U","M","A","L">>,
    <<"U","m","a","L">> }

(***************************************************************************)
(* Tensor operations (torch)                                               *)
(***************************************************************************)
\* Tensor.transpose(0, 1) of a tensor with at least two axes
transpose01(x) ==
  [j \in 1..Len(x[1]) |-> [i \in 1..Len(x) |-> x[i][j]]]

\* Tensor.unsqueeze(0)
unsqueeze0(x) == <<x>>

\* Tensor.repeat(n, 1, 1) of a three-axis tensor
repeat0(x, n) ==
  [i \in 1..(n * Len(x)) |-> x[((i - 1) % Len(x)) + 1]]

\* torch.cat(xs, dim=-1) of three-axis tensors: the leading two axes must agree
catShapesAgree(xs) ==
  \A k \in 1..Len(xs) :
     /\ Len(xs[k]) = Len(xs[1])
     /\ \A i \in 1..Len(xs[1]) : Len(xs[k][i]) = Len(xs[1][i])

RECURSIVE catFeatures(_, _, _)
catFeatures(xs, i, j) ==
  IF xs = <<>> THEN <<>> ELSE Head(xs)[i][j] \o catFeatures(Tail(xs), i, j)

cat_last(xs) ==
  [i \in 1..Len(xs[1]) |-> [j \in 1..Len(xs[1][i]) |-> catFeatures(xs, i, j)]]

(***************************************************************************)
(* GRU.__init__                                                            *)
(***************************************************************************)
\* variant: the head name is compared without lower()
input_size_case_sensitive(c) ==
  LET n0 == Len(c.dynamic_inputs \o c.static_inputs \o c.hydroatlas_attributes
                 \o c.camels_attributes)
      n1 == IF c.use_basin_id_encoding THEN n0 + c.number_of_basins ELSE n0
      n2 == IF c.head = <<"u","m","a","l">> THEN n1 + 1 ELSE n1
  IN  n2

\* the input width computed by the constructor
input_size(c) ==
  LET n0 == Len(c.dynamic_inputs \o c.static_inputs \o c.hydroatlas_attributes
                 \o c.camels_attributes)
      n1 == IF c.use_basin_id_encoding THEN n0 + c.number_of_basins ELSE n0
      n2 == IF lower(c.head) = <<"u","m","a","l">> THEN n1 + 1 ELSE n1
  IN  n2

\* the constructed model: the recurrent cell's sizes
GRU_init(c) ==
  [input_size |-> input_size(c), hidden_size |-> c.hidden_size]

(***************************************************************************)
(* forward                                                                 *)
(***************************************************************************)
\* variant: with both keys present the one-hot features precede the static ones
concat_inputs_one_hot_first(d) ==
  LET x_d == transpose01(d["x_d"])
      xs  == IF "x_s" \in DOMAIN d /\ "x_one_hot" \in DOMAIN d
               THEN <<x_d, repeat0(unsqueeze0(d["x_one_hot"]), Len(x_d)),
                           repeat0(unsqueeze0(d["x_s"]), Len(x_d))>>
             ELSE IF "x_s" \in DOMAIN d
               THEN <<x_d, repeat0(unsqueeze0(d["x_s"]), Len(x_d))>>
             ELSE IF "x_one_hot" \in DOMAIN d
               THEN <<x_d, repeat0(unsqueeze0(d["x_one_hot"]), Len(x_d))>>
             ELSE <<x_d>>
  IN  IF catShapesAgree(xs) THEN [ok |-> TRUE, x |-> cat_last(xs)]
                            ELSE [ok |-> FALSE, x |-> <<>>]

\* variant: the one-hot features are left out when only x_one_hot is present
concat_inputs_without_one_hot(d) ==
  LET x_d == transpose01(d["x_d"])
      xs  == IF "x_s" \in DOMAIN d /\ "x_one_hot" \in DOMAIN d
               THEN <<x_d, repeat0(unsqueeze0(d["x_s"]), Len(x_d)),
                           repeat0(unsqueeze0(d["x_one_hot"]), Len(x_d))>>
             ELSE IF "x_s" \in DOMAIN d
               THEN <<x_d, repeat0(unsqueeze0(d["x_s"]), Len(x_d))>>
             ELSE <<x_d>>
  IN  IF catShapesAgree(xs) THEN [ok |-> TRUE, x |-> cat_last(xs)]
                            ELSE [ok |-> FALSE, x |-> <<>>]

\* the concatenation of all inputs along the feature axis, time-major
concat_inputs(d) ==
  LET x_d == transpose01(d["x_d"])
      xs  == IF "x_s" \in DOMAIN d /\ "x_one_hot" \in DOMAIN d
               THEN <<x_d, repeat0(unsqueeze0(d["x_s"]), Len(x_d)),
                           repeat0(unsqueeze0(d["x_one_hot"]), Len(x_d))>>
             ELSE IF "x_s" \in DOMAIN d
               THEN <<x_d, repeat0(unsqueeze0(d["x_s"]), Len(x_d))>>
             ELSE IF "x_one_hot" \in DOMAIN d
               THEN <<x_d, repeat0(unsqueeze0(d["x_one_hot"]), Len(x_d))>>
             ELSE <<x_d>>
  IN  IF catShapesAgree(xs) THEN [ok |-> TRUE, x |-> cat_last(xs)]
                            ELSE [ok |-> FALSE, x |-> <<>>]

\* nn.GRU(input_size, hidden_size)(input): a single-layer cell over a
\* [seq, batch, input_size] tensor; returns the output sequence
\* [seq, batch, hidden] and the final hidden state [1, batch, hidden]
gru_cell(g, x) ==
  IF \E t \in 1..Len(x) : \E b \in 1..Len(x[t]) : Len(x[t][b]) # g.input_size
    THEN [ok |-> FALSE, output |-> <<>>, h_n |-> <<>>]
    ELSE [ok |-> TRUE,
          output |-> [t \in 1..Len(x) |-> [b \in 1..Len(x[t]) |->
                        [k \in 1..g.hidden_size |-> <<"h", t, b, k>>]]],
          h_n |-> << [b \in 1..Len(x[1]) |->
                        [k \in 1..g.hidden_size |-> <<"h", Len(x), b, k>>]] >>]

\* nn.Dropout: elementwise and shape preserving; in training mode some
\* entries are zeroed, in evaluation mode none
dropout(x, mode) ==
  [i \in 1..Len(x) |-> [j \in 1..Len(x[i]) |-> [k \in 1..Len(x[i][j]) |->
     IF mode = "train" /\ (i + j + k) % 2 = 0 THEN <<"zero", i, j, k>>
                                             ELSE x[i][j][k]]]]

HeadKinds == {"y_hat", "y_hat+h_n"}

\* the head returned by get_head: maps a [batch, time, hidden] tensor to a
\* mapping that contains at least y_hat of shape [batch, time, *]; a head
\* may return further keys
head(kind, x) ==
  LET y_hat == [i \in 1..Len(x) |-> [j \in 1..Len(x[i]) |-> << <<"y_hat", x[i][j]>> >>]]
      state == << [i \in 1..Len(x) |-> << <<"head_state", i>> >>] >>
  IN  IF kind = "y_hat+h_n"
        THEN [k \in {"y_hat", "h_n"} |-> IF k = "y_hat" THEN y_hat ELSE state]
        ELSE [k \in {"y_hat"} |-> y_hat]

\* variant: a key that is already present keeps its value
dict_update_keeps_existing(a, b) ==
  [k \in (DOMAIN a) \cup (DOMAIN b) |-> IF k \in DOMAIN a THEN a[k] ELSE b[k]]

\* dict.update
dict_update(a, b) ==
  [k \in (DOMAIN a) \cup (DOMAIN b) |-> IF k \in DOMAIN b THEN b[k] ELSE a[k]]

\* variant: the output sequence is handed to the head time-major
head_input_untransposed(gru_output, mode) == dropout(gru_output, mode)

\* the tensor handed to the head
head_input(gru_output, mode) == dropout(transpose01(gru_output), mode)

\* variant: the final hidden state is returned as the cell returns it
hidden_out_untransposed(h_n) == h_n

\* the final hidden state as returned under 'h_n'
hidden_out(h_n) == transpose01(h_n)

forward(g, d, mode, kind) ==
  LET c == concat_inputs(d)
      r == gru_cell(g, c.x)
  IN  IF ~c.ok
        THEN [status |-> "error", gru_in |-> <<>>, head_out |-> <<>>, value |-> <<>>,
              data |-> d]
      ELSE IF ~r.ok
        THEN [status |-> "error", gru_in |-> c.x, head_out |-> <<>>, value |-> <<>>,
              data |-> d]
      ELSE LET p0 == [k \in {"h_n"} |-> hidden_out(r.h_n)]
               ho == head(kind, head_input(r.output, mode))
           IN  [status |-> "ok", gru_in |-> c.x, head_out |-> ho,
                value |-> dict_update(p0, ho), data |-> d]

(***************************************************************************)
(* Input mappings handed to forward by the caller                          *)
(***************************************************************************)
x_d_tensor(B, T, F) ==
  [b \in 1..B |-> [t \in 1..T |-> [f \in 1..F |-> <<"x_d", b, t, f>>]]]

x_s_tensor(B, F) == [b \in 1..B |-> [f \in 1..F |-> <<"x_s", b, f>>]]

x_one_hot_tensor(B, F) == [b \in 1..B |-> [f \in 1..F |-> <<"x_one_hot", b, f>>]]

\* ns = 0: no key x_s;  no = 0: no key x_one_hot
InputMapping(B, T, nd, ns, no) ==
  [k \in {"x_d"} \cup (IF ns > 0 THEN {"x_s"} ELSE {})
                 \cup (IF no > 0 THEN {"x_one_hot"} ELSE {}) |->
     IF k = "x_d" THEN x_d_tensor(B, T, nd)
     ELSE IF k = "x_s" THEN x_s_tensor(B, ns)
     ELSE x_one_hot_tensor(B, no)]

(***************************************************************************)
(* Files of the CAMELS-CL data directory                                   *)
(***************************************************************************)
Basins == {"b1", "b2", "b3"}

DateColumns == {"record_period_start", "record_period_end"}

\* the attributes file: one row per attribute (first column gauge_id holds
\* the attribute name), one column per basin; text is the set of cells
\* <<attribute, basin>> whose value is not numeric; the cells of the two
\* record period rows hold dates unless they are in text
AttributeFiles ==
  { [rows |-> <<"area", "geol_class", "record_period_start", "record_period_end">>,
     basins |-> <<"b1", "b2", "b3">>,
     text |-> {<<"geol_class", "b1">>, <<"geol_class", "b2">>, <<"geol_class", "b3">>}],
    [rows |-> <<"record_period_start", "area", "record_period_end", "elev">>,
     basins |-> <<"b2", "b1">>,
     text |-> {}],
    [rows |-> <<"area", "record_period_start", "record_period_end">>,
     basins |-> <<"b1", "b3">>,
     text |-> {<<"area", "b3">>}],
    [rows |-> <<"area", "geol_class">>,
     basins |-> <<"b1", "b2">>,
     text |-> {<<"geol_class", "b1">>, <<"geol_class", "b2">>}],
    [rows |-> <<"area", "record_period_start", "record_period_end">>,
     basins |-> <<"b1", "b2">>,
     text |-> {<<"record_period_end", "b2">>}] }

\* a data directory: the kind of its entry 'preprocessed', the basins that
\* have a per-basin csv file in it, and the attributes file
FileSystems ==
  { [preprocessed |-> k,
     basin_files |-> IF k = "dir" THEN {"b1", "b2"} ELSE {},
     attributes |-> f] : k \in {"absent", "file", "dir"}, f \in AttributeFiles }

SeqToSet(q) == {q[i] : i \in 1..Len(q)}

(***************************************************************************)
(* load_camels_cl_timeseries                                               *)
(***************************************************************************)
\* the message of the error raised when the preprocessed directory is missing
missing_preprocessed_msg(data_dir) ==
  <<"No", "preprocessed", "data", "directory", "found", "at",
    data_dir \o "/preprocessed.", "Use", "preprocessed_camels_cl_dataset",
    "in", "neuralhydrology.datasetzoo.camelscl", "to", "preprocess", "the",
    "CAMELS", "CL", "data", "set", "once", "into", "per-basin", "files.">>

\* variant: the per-basin file is read without checking the directory first
load_camels_cl_timeseries_unchecked(f, data_dir, basin) ==
  LET preprocessed_dir == data_dir \o "/preprocessed"
      basin_file == preprocessed_dir \o "/" \o basin \o ".csv"
  IN  IF basin \notin f.basin_files
        THEN [outcome |-> "raise", exc |-> "FileNotFoundError",
              msg |-> <<basin_file>>,
              value |-> [kind |-> "None"],
              io |-> << <<"read_csv", basin_file>> >>]
      ELSE [outcome |-> "return", exc |-> "", msg |-> <<>>,
            value |-> [kind |-> "DataFrame", index_col |-> "date",
                       index_dtype |-> "datetime64", source |-> basin_file],
            io |-> << <<"read_csv", basin_file>> >>]

\* returns the outcome of the call and the file system accesses it made
load_camels_cl_timeseries(f, data_dir, basin) ==
  LET preprocessed_dir == data_dir \o "/preprocessed"
      basin_file == preprocessed_dir \o "/" \o basin \o ".csv"
  IN  IF f.preprocessed # "dir"
        THEN [outcome |-> "raise", exc |-> "FileNotFoundError",
              msg |-> missing_preprocessed_msg(data_dir),
              value |-> [kind |-> "None"],
              io |-> << <<"is_dir", preprocessed_dir>> >>]
      ELSE IF basin \notin f.basin_files
        THEN [outcome |-> "raise", exc |-> "FileNotFoundError",
              msg |-> <<basin_file>>,
              value |-> [kind |-> "None"],
              io |-> << <<"is_dir", preprocessed_dir>>, <<"read_csv", basin_file>> >>]
      ELSE [outcome |-> "return", exc |-> "", msg |-> <<>>,
            value |-> [kind |-> "DataFrame", index_col |-> "date",
                       index_dtype |-> "datetime64", source |-> basin_file],
            io |-> << <<"is_dir", preprocessed_dir>>, <<"read_csv", basin_file>> >>]

(***************************************************************************)
(* load_camels_cl_attributes                                               *)
(***************************************************************************)
\* variant: errors='coerce', every column but the record period ones turns numeric
to_numeric_dtype_coerce(file, a) ==
  IF a \in DateColumns THEN "object" ELSE "float64"

\* pd.to_numeric(column, errors='ignore'): numeric when every value parses
to_numeric_dtype(file, a) ==
  IF a \in DateColumns \/ \E b \in SeqToSet(file.basins) : <<a, b>> \in file.text
    THEN "object" ELSE "float64"

\* list.__contains__
in_list(x, q) == \E i \in 1..Len(q) : q[i] = x

\* DataFrame.drop(labels): the labels of an axis without the dropped ones
drop(axis, labels) == SelectSeq(axis, LAMBDA x : ~in_list(x, labels))

\* variant: the listed basins are the ones dropped
drop_basins_listed(index, basins) == SelectSeq(index, LAMBDA b : in_list(b, basins))

\* the rows dropped for a basin restriction list
drop_basins(index, basins) == SelectSeq(index, LAMBDA b : ~in_list(b, basins))

load_camels_cl_attributes(f, data_dir, basins) ==
  LET attributes_file == data_dir \o "/1_CAMELScl_attributes.txt"
      file == f.attributes
      acc == << <<"read_csv", attributes_file>> >>
      \* transposed: rows are basins, columns are attributes
      index0 == file.basins
      cols == file.rows
      dt1 == [a \in SeqToSet(cols) |-> to_numeric_dtype(file, a)]
      index1 == IF basins # <<>> THEN drop(index0, drop_basins(index0, basins))
                                 ELSE index0
  IN  IF ~(DateColumns \subseteq SeqToSet(cols))
        THEN [outcome |-> "raise", exc |-> "KeyError", msg |-> <<>>,
              value |-> [kind |-> "None"], io |-> acc]
      ELSE IF \E a \in DateColumns : \E b \in SeqToSet(index0) : <<a, b>> \in file.text
        THEN [outcome |-> "raise", exc |-> "ValueError", msg |-> <<>>,
              value |-> [kind |-> "None"], io |-> acc]
      ELSE [outcome |-> "return", exc |-> "", msg |-> <<>>,
            value |-> [kind |-> "DataFrame", index |-> index1, columns |-> cols,
                       dtypes |-> [a \in SeqToSet(cols) |->
                                     IF a \in DateColumns THEN "datetime64" ELSE dt1[a]]],
            io |-> acc]

(***************************************************************************)
(* CamelsCL                                                                *)
(***************************************************************************)
\* CamelsCL.__init__: forwards its arguments to BaseDataset.__init__
CamelsCL_init(c, a) ==
  [cls |-> "CamelsCL", cfg |-> c, is_train |-> a.is_train, period |-> a.period,
   basin |-> a.basin, additional_features |-> a.additional_features,
   id_to_int |-> a.id_to_int, scaler |-> a.scaler]

\* the dataset classes of the framework other than CamelsCL take the same
\* arguments
Dataset_init(cls, c, a) ==
  IF cls = "CamelsCL" THEN CamelsCL_init(c, a)
  ELSE [cls |-> cls, cfg |-> c, is_train |-> a.is_train, period |-> a.period,
        basin |-> a.basin, additional_features |-> a.additional_features,
        id_to_int |-> a.id_to_int, scaler |-> a.scaler]

\* CamelsCL._load_basin_data
CamelsCL_load_basin_data(self, f, basin) ==
  load_camels_cl_timeseries(f, self.cfg.data_dir, basin)

\* variant: the two record period columns are never removed
drop_cols_keep_dates(columns, camels_attributes) ==
  SelectSeq(columns, LAMBDA col : ~in_list(col, camels_attributes) /\ col \notin DateColumns)

\* the columns removed because the config does not name them
drop_cols(columns, camels_attributes) ==
  SelectSeq(columns, LAMBDA col : ~in_list(col, camels_attributes))

\* variant: the attributes are loaded and filtered whatever the config lists
CamelsCL_load_attributes_always(self, f, self_basins) ==
  LET r == load_camels_cl_attributes(f, self.cfg.data_dir, self_basins)
  IN  IF r.outcome = "raise" THEN r
      ELSE LET df == r.value
               kept == drop(df.columns, drop_cols(df.columns, self.cfg.camels_attributes))
           IN  [r EXCEPT !.value =
                  [kind |-> "DataFrame", index |-> df.index, columns |-> kept,
                   dtypes |-> [a \in SeqToSet(kept) |-> df.dtypes[a]]]]

\* CamelsCL._load_attributes; self_basins is self.basins
CamelsCL_load_attributes(self, f, self_basins) ==
  IF self.cfg.camels_attributes # <<>>
    THEN LET r == load_camels_cl_attributes(f, self.cfg.data_dir, self_basins)
         IN  IF r.outcome = "raise" THEN r
             ELSE LET df == r.value
                      kept == drop(df.columns, drop_cols(df.columns, self.cfg.camels_attributes))
                  IN  [r EXCEPT !.value =
                         [kind |-> "DataFrame", index |-> df.index, columns |-> kept,
                          dtypes |-> [a \in SeqToSet(kept) |-> df.dtypes[a]]]]
    ELSE [outcome |-> "return", exc |-> "", msg |-> <<>>,
          value |-> [kind |-> "None"], io |-> <<>>]

(***************************************************************************)
(* get_dataset                                                             *)
(***************************************************************************)
DatasetKeys ==
  {"camels_us", "camels_gb", "hourly_camels_us", "camels_cl", "camels_br", "CAMELS_CL"}

\* variant: an unknown key falls back to the first dataset class
get_dataset_fallback(c, a) ==
  LET Dataset == IF c.dataset = "camels_us" THEN "CamelsUS"
                 ELSE IF c.dataset = "camels_gb" THEN "CamelsGB"
                 ELSE IF c.dataset = "hourly_camels_us" THEN "HourlyCamelsUS"
                 ELSE IF c.dataset = "camels_cl" THEN "CamelsCL"
                 ELSE "CamelsUS"
  IN  [outcome |-> "return", exc |-> "", msg |-> <<>>,
       constructed |-> <<Dataset_init(Dataset, c, a)>>]

\* returns the outcome and the datasets constructed by the call
get_dataset(c, a) ==
  LET Dataset == IF c.dataset = "camels_us" THEN "CamelsUS"
                 ELSE IF c.dataset = "camels_gb" THEN "CamelsGB"
                 ELSE IF c.dataset = "hourly_camels_us" THEN "HourlyCamelsUS"
                 ELSE IF c.dataset = "camels_cl" THEN "CamelsCL"
                 ELSE "NotImplementedError"
  IN  IF Dataset = "NotImplementedError"
        THEN [outcome |-> "raise", exc |-> "NotImplementedError",
              msg |-> <<"No", "dataset", "class", "implemented", "for", "dataset", c.dataset>>,
              constructed |-> <<>>]
        ELSE [outcome |-> "return", exc |-> "", msg |-> <<>>,
              constructed |-> <<Dataset_init(Dataset, c, a)>>]

(***************************************************************************)
(* Objects passed by reference                                             *)
(***************************************************************************)
\* an object is named by its owner, the number of the call that made it
\* (0: made before any call) and the parameter it is bound to
MaxCalls == 2

\* the default values of the optional parameters are created once, when the
\* function is defined, and every call that omits the argument receives
\* that same object
DefaultObject(function, parameter) == <<function, 0, parameter>>

DefaultObjects ==
  { DefaultObject("CamelsCL.__init__", p) :
      p \in {"additional_features", "id_to_int", "scaler"} }
    \cup { DefaultObject("load_camels_cl_attributes", "basins") }

\* lists owned by the callers of load_camels_cl_attributes
CallerLists == { <<"caller", 0, "basins_1">>, <<"caller", 0, "basins_2">> }

\* the object a caller makes for the n-th call and passes as parameter p
CallerObject(n, p) == <<"caller", n, p>>

CallerObjects ==
  { CallerObject(n, p) :
      n \in 1..MaxCalls, p \in {"additional_features", "id_to_int", "scaler"} }

\* the contents of the list and dict objects, by object
InitialHeap ==
  [o \in DefaultObjects \cup CallerLists \cup CallerObjects |->
     IF o = <<"caller", 0, "basins_1">> THEN <<"b1">>
     ELSE IF o = <<"caller", 0, "basins_2">> THEN <<"b2", "b1">>
     ELSE <<>>]

(***************************************************************************)
(* Configurations                                                          *)
(***************************************************************************)
Prefixes(q, lo) == {SubSeq(q, 1, n) : n \in lo..Len(q)}

BaseConfig ==
  [dynamic_inputs |-> <<"precip_cr2met", "tmax_cr2met">>,
   static_inputs |-> <<>>,
   hydroatlas_attributes |-> <<>>,
   camels_attributes |-> <<"area">>,
   use_basin_id_encoding |-> FALSE,
   number_of_basins |-> 1,
   head |-> <<"r","e","g","r","e","s","s","i","o","n">>,
   hidden_size |-> 2,
   dataset |-> "camels_cl",
   data_dir |-> "data",
   model |-> "gru",
   use_frequencies |-> <<>>]

\* the configurations of the model adapter
ModelConfigs ==
  { [BaseConfig EXCEPT !.dynamic_inputs = d, !.static_inputs = s,
                       !.hydroatlas_attributes = h, !.camels_attributes = c,
                       !.use_basin_id_encoding = e, !.number_of_basins = n,
                       !.head = hd] :
      d \in Prefixes(<<"precip_cr2met", "tmax_cr2met">>, 1),
      s \in Prefixes(<<"static_1">>, 0),
      h \in Prefixes(<<"hydro_1">>, 0),
      c \in Prefixes(<<"area">>, 0),
      e \in BOOLEAN,
      n \in 1..MaxBasins,
      hd \in HeadNames }

\* the configurations of the dataset adapter
DataConfigs ==
  { [BaseConfig EXCEPT !.camels_attributes = c, !.dataset = k] :
      c \in { <<>>, <<"area">>, <<"geol_class", "area">>,
              <<"area", "record_period_end">>, <<"area", "slope">> },
      k \in DatasetKeys }

NoModel == [constructed |-> FALSE, input_size |-> 0, hidden_size |-> 0]

NoCall == [status |-> "none", value |-> <<>>]

NoDataset == [cls |-> "None"]

NoReturn == [op |-> "none"]

DefaultFileSystem ==
  [preprocessed |-> "dir", basin_files |-> {"b1", "b2"},
   attributes |-> [rows |-> <<"area", "record_period_start", "record_period_end">>,
                   basins |-> <<"b1", "b2">>, text |-> {}]]

(***************************************************************************)
(* The model adapter: construction and forward passes                      *)
(***************************************************************************)
Init ==
  /\ cfg \in ModelConfigs
  /\ gru = NoModel
  /\ data = <<>>
  /\ gru_in = <<>>
  /\ pred = NoCall
  /\ head_out = <<>>
  /\ fs = DefaultFileSystem
  /\ ds = NoDataset
  /\ io = <<>>
  /\ ret = NoReturn
  /\ heap = InitialHeap
  /\ calls = <<>>

\* model = GRU(cfg)
Construct ==
  /\ ~gru.constructed
  /\ gru' = [constructed |-> TRUE, input_size |-> GRU_init(cfg).input_size,
             hidden_size |-> GRU_init(cfg).hidden_size]
  /\ UNCHANGED <<cfg, data, gru_in, pred, head_out, dataVars, callVars>>

\* model(data), in training or evaluation mode, with the configured head
Forward ==
  /\ gru.constructed
  /\ pred.status = "none"
  /\ \E B \in 1..MaxBatch, T \in 1..MaxSeqLen,
        nd \in 1..(Len(cfg.dynamic_inputs) + 1),
        ns \in 0..MaxStatic, no \in 0..MaxBasins,
        mode \in {"train", "eval"}, kind \in HeadKinds :
       LET d == InputMapping(B, T, nd, ns, no)
           r == forward(gru, d, mode, kind)
       IN  /\ data' = r.data
           /\ gru_in' = r.gru_in
           /\ head_out' = r.head_out
           /\ pred' = [status |-> r.status, value |-> r.value]
           /\ calls' = <<[op |-> "forward", data |-> d]>>
  /\ UNCHANGED <<cfg, gru, dataVars, heap>>

\* the caller is done with the returned mapping; the tensors of the call
\* are released
Release ==
  /\ pred.status # "none"
  /\ data' = <<>>
  /\ gru_in' = <<>>
  /\ head_out' = <<>>
  /\ pred' = NoCall
  /\ calls' = <<>>
  /\ UNCHANGED <<cfg, gru, dataVars, heap>>

Next == Construct \/ Forward \/ Release

Spec == Init /\ [][Next]_vars

(***************************************************************************)
(* The dataset adapter: loader calls, CamelsCL objects, get_dataset        *)
(***************************************************************************)
\* basin lists handed to the attribute loader; the empty list is the default
BasinLists ==
  { <<>>, <<"b1">>, <<"b2", "b1">>, <<"b3">>, <<"b1", "b4">> }

\* the arguments of a dataset construction besides cfg; the empty values of
\* additional_features, id_to_int and scaler are the defaults
CallArgs ==
  { [is_train |-> TRUE, period |-> "train", basin |-> "None",
     additional_features |-> <<>>, id_to_int |-> <<>>, scaler |-> <<>>],
    [is_train |-> FALSE, period |-> "validation", basin |-> "b1",
     additional_features |-> <<"feature_table">>,
     id_to_int |-> << <<"b1", 0>> >>, scaler |-> << <<"mean", 1>> >>],
    [is_train |-> FALSE, period |-> "test", basin |-> "b3",
     additional_features |-> <<>>, id_to_int |-> << <<"b3", 2>> >>, scaler |-> <<>>],
    [is_train |-> TRUE, period |-> "train", basin |-> "b2",
     additional_features |-> <<"feature_table">>, id_to_int |-> <<>>,
     scaler |-> << <<"std", 2>> >>] }

InitData ==
  /\ cfg \in DataConfigs
  /\ fs \in FileSystems
  /\ ds = NoDataset
  /\ io = <<>>
  /\ ret = NoReturn
  /\ gru = NoModel
  /\ data = <<>>
  /\ gru_in = <<>>
  /\ pred = NoCall
  /\ head_out = <<>>
  /\ heap = InitialHeap
  /\ calls = <<>>

Idle == ret.op = "none"

\* load_camels_cl_timeseries(cfg.data_dir, basin)
LoadTimeseries ==
  /\ Idle
  /\ \E basin \in Basins :
       LET r == load_camels_cl_timeseries(fs, cfg.data_dir, basin)
       IN  /\ ret' = [op |-> "load_camels_cl_timeseries", args |-> [basin |-> basin],
                      outcome |-> r.outcome, exc |-> r.exc, msg |-> r.msg,
                      value |-> r.value, constructed |-> <<>>]
           /\ io' = r.io
  /\ UNCHANGED <<cfg, fs, ds, modelVars, callVars>>

\* load_camels_cl_attributes(cfg.data_dir, basins)
LoadAttributes ==
  /\ Idle
  /\ \E basins \in BasinLists :
       LET r == load_camels_cl_attributes(fs, cfg.data_dir, basins)
       IN  /\ ret' = [op |-> "load_camels_cl_attributes", args |-> [basins |-> basins],
                      outcome |-> r.outcome, exc |-> r.exc, msg |-> r.msg,
                      value |-> r.value, constructed |-> <<>>]
           /\ io' = r.io
  /\ UNCHANGED <<cfg, fs, ds, modelVars, callVars>>

\* CamelsCL(cfg, is_train, period, basin, additional_features, id_to_int, scaler)
ConstructCamelsCL ==
  /\ Idle
  /\ \E a \in CallArgs :
       /\ ds' = CamelsCL_init(cfg, a)
       /\ ret' = [op |-> "CamelsCL", args |-> a, outcome |-> "return", exc |-> "",
                  msg |-> <<>>, value |-> [kind |-> "Dataset"],
                  constructed |-> <<CamelsCL_init(cfg, a)>>]
  /\ UNCHANGED <<cfg, fs, io, modelVars, callVars>>

\* dataset._load_basin_data(basin)
LoadBasinData ==
  /\ Idle
  /\ ds.cls = "CamelsCL"
  /\ \E basin \in Basins :
       LET r == CamelsCL_load_basin_data(ds, fs, basin)
       IN  /\ ret' = [op |-> "_load_basin_data", args |-> [basin |-> basin],
                      outcome |-> r.outcome, exc |-> r.exc, msg |-> r.msg,
                      value |-> r.value, constructed |-> <<>>]
           /\ io' = r.io
  /\ UNCHANGED <<cfg, fs, ds, modelVars, callVars>>

\* dataset._load_attributes(), with dataset.basins as the base class set it
LoadDatasetAttributes ==
  /\ Idle
  /\ ds.cls = "CamelsCL"
  /\ \E basins \in BasinLists :
       LET r == CamelsCL_load_attributes(ds, fs, basins)
       IN  /\ ret' = [op |-> "_load_attributes", args |-> [basins |-> basins],
                      outcome |-> r.outcome, exc |-> r.exc, msg |-> r.msg,
                      value |-> r.value, constructed |-> <<>>]
           /\ io' = r.io
  /\ UNCHANGED <<cfg, fs, ds, modelVars, callVars>>

\* get_dataset(cfg, is_train, period, basin, additional_features, id_to_int, scaler)
GetDataset ==
  /\ Idle
  /\ \E a \in CallArgs :
       LET r == get_dataset(cfg, a)
       IN  /\ ret' = [op |-> "get_dataset", args |-> a,
                      outcome |-> r.outcome, exc |-> r.exc, msg |-> r.msg,
                      value |-> [kind |-> IF r.outcome = "return" THEN "Dataset" ELSE "None"],
                      constructed |-> r.constructed]
           /\ ds' = IF r.outcome = "return" THEN r.constructed[1] ELSE ds
  /\ UNCHANGED <<cfg, fs, io, modelVars, callVars>>

\* the caller is done with the result of the call
ReleaseResult ==
  /\ ~Idle
  /\ ret' = NoReturn
  /\ io' = <<>>
  /\ UNCHANGED <<cfg, fs, ds, modelVars, callVars>>

NextData ==
  \/ LoadTimeseries
  \/ LoadAttributes
  \/ ConstructCamelsCL
  \/ LoadBasinData
  \/ LoadDatasetAttributes
  \/ GetDataset
  \/ ReleaseResult

SpecData == InitData /\ [][NextData]_vars

(***************************************************************************)
(* Properties of the model adapter                                         *)
(***************************************************************************)
\* the head name is "umal" up to the case of its letters
IsUmal(h) ==
  /\ Len(h) = 4
  /\ h[1] \in {"u", "U"} /\ h[2] \in {"m", "M"}
  /\ h[3] \in {"a", "A"} /\ h[4] \in {"l", "L"}

StaticCount(c) ==
  Len(c.static_inputs) + Len(c.hydroatlas_attributes) + Len(c.camels_attributes)

ExpectedInputSize(c) ==
  Len(c.dynamic_inputs) + StaticCount(c)
    + (IF c.use_basin_id_encoding THEN c.number_of_basins ELSE 0)
    + (IF IsUmal(c.head) THEN 1 ELSE 0)

\* C1: the input width the GRU constructor passes to the recurrent cell is
\* |dynamic_inputs| + |static_inputs| + |hydroatlas_attributes| +
\* |camels_attributes|, plus number_of_basins exactly when
\* use_basin_id_encoding is set, plus 1 exactly when the head name is "umal"
\* in any letter case.
C1_InputWidth ==
  gru.constructed => gru.input_size = ExpectedInputSize(cfg)

C1_Witness ==
  /\ gru.constructed
  /\ cfg.use_basin_id_encoding
  /\ cfg.number_of_basins = 2
  /\ cfg.head = <<"U","M","A","L">>
  /\ StaticCount(cfg) = 3

Called == pred.status # "none"

BatchSize == Len(data["x_d"])

SeqLength == Len(data["x_d"][1])

\* the number of features of x_s or x_one_hot, 0 when the key is absent
FeatureCount(key) == IF key \in DOMAIN data THEN Len(data[key][1]) ELSE 0

\* the number of features of x_d
DynamicCount == Len(data["x_d"][1][1])

\* the feature width of the tensor fed to the recurrent cell
FedWidth == Len(gru_in[1][1])

\* the input mapping is the one the configuration describes: x_s is present
\* exactly when static features are configured, x_one_hot exactly when the
\* basin encoding is enabled, each with the configured number of features
StaticAndOneHotFromConfig ==
  /\ FeatureCount("x_s") = StaticCount(cfg)
  /\ FeatureCount("x_one_hot") =
       (IF cfg.use_basin_id_encoding THEN cfg.number_of_basins ELSE 0)

InputFromConfig ==
  /\ StaticAndOneHotFromConfig
  /\ DynamicCount = Len(cfg.dynamic_inputs)

\* C2 as stated: for an input mapping built from the configuration, with x_d
\* carrying |dynamic_inputs| features, the width fed to the recurrent cell
\* equals the input width computed at construction, for every head type.
C2_Original ==
  (Called /\ InputFromConfig) => FedWidth = gru.input_size

\* C2 amended: forward feeds the cell the features of x_d, x_s and x_one_hot
\* and adds no feature of its own; for an input mapping built from the
\* configuration this is the constructed input width when the head is not
\* "umal", and one less than it when the head is "umal", unless x_d itself
\* carries the additional channel (|dynamic_inputs| + 1 features).
C2_FedWidth ==
  Called =>
    /\ FedWidth = DynamicCount + FeatureCount("x_s") + FeatureCount("x_one_hot")
    /\ InputFromConfig =>
         FedWidth = gru.input_size - (IF IsUmal(cfg.head) THEN 1 ELSE 0)
    /\ (StaticAndOneHotFromConfig /\ IsUmal(cfg.head)
          /\ DynamicCount = Len(cfg.dynamic_inputs) + 1) =>
         FedWidth = gru.input_size

C2_Witness ==
  /\ Called
  /\ InputFromConfig
  /\ IsUmal(cfg.head)
  /\ cfg.use_basin_id_encoding
  /\ StaticCount(cfg) > 0
  /\ pred.status = "error"

\* C3: the tensor fed to the recurrent cell is time-major and its feature
\* axis is, at every timestep t and for every example b, the dynamic
\* features of (b, t), then the static features of b if x_s is present, then
\* the one-hot features of b if x_one_hot is present, and nothing else.
C3_ConcatOrder ==
  Called =>
    /\ Len(gru_in) = SeqLength
    /\ \A t \in 1..SeqLength :
         /\ Len(gru_in[t]) = BatchSize
         /\ \A b \in 1..BatchSize :
              gru_in[t][b] =
                data["x_d"][b][t]
                  \o (IF "x_s" \in DOMAIN data THEN data["x_s"][b] ELSE <<>>)
                  \o (IF "x_one_hot" \in DOMAIN data THEN data["x_one_hot"][b] ELSE <<>>)

C3_Witness ==
  /\ Called
  /\ {"x_s", "x_one_hot"} \subseteq DOMAIN data
  /\ BatchSize = 2
  /\ SeqLength = 2
  /\ FeatureCount("x_s") = 2
  /\ FeatureCount("x_one_hot") = 2

\* C4: for every accepted input mapping the returned mapping has the key
\* y_hat, whose first axis is the batch size and whose second axis is the
\* sequence length of x_d: one prediction per example and timestep, made
\* from the cell's output for that example and timestep.
C4_YHatShape ==
  pred.status = "ok" =>
    /\ "y_hat" \in DOMAIN pred.value
    /\ Len(pred.value["y_hat"]) = BatchSize
    /\ \A b \in 1..BatchSize :
         /\ Len(pred.value["y_hat"][b]) = SeqLength
         /\ \A t \in 1..SeqLength :
              LET src == pred.value["y_hat"][b][t][1][2]
              IN  \A k \in 1..Len(src) :
                    \/ src[k] = <<"h", t, b, k>>
                    \/ src[k][1] = "zero"

C4_Witness ==
  /\ pred.status = "ok"
  /\ BatchSize = 1
  /\ SeqLength = 2

HiddenShape(x) == <<Len(x), Len(x[1]), Len(x[1][1])>>

\* C5 as stated: the returned mapping has the key h_n and its leading axis
\* is the batch size of x_d, whatever mapping the head returns.
C5_Original ==
  pred.status = "ok" =>
    /\ "h_n" \in DOMAIN pred.value
    /\ Len(pred.value["h_n"]) = BatchSize

\* C5 amended: the returned mapping always has the key h_n; when the head's
\* mapping has no key h_n of its own, the value is the final hidden state
\* with shape [batch, 1, hidden_size].
C5_HiddenState ==
  pred.status = "ok" =>
    /\ "h_n" \in DOMAIN pred.value
    /\ "h_n" \notin DOMAIN head_out =>
         /\ HiddenShape(pred.value["h_n"]) = <<BatchSize, 1, gru.hidden_size>>
         /\ \A b \in 1..BatchSize : \A k \in 1..gru.hidden_size :
              pred.value["h_n"][b][1][k] = <<"h", SeqLength, b, k>>

C5_Witness ==
  /\ pred.status = "ok"
  /\ "h_n" \notin DOMAIN head_out
  /\ BatchSize = 2
  /\ SeqLength = 2

(***************************************************************************)
(* Properties of the dataset adapter                                       *)
(***************************************************************************)
Returned(op) == ret.op = op /\ ret.outcome = "return"

FileBasins == SeqToSet(fs.attributes.basins)

FileAttributes == SeqToSet(fs.attributes.rows)

ConfiguredAttributes == SeqToSet(cfg.camels_attributes)

\* C6: CamelsCL._load_attributes returns None, and reads no file, when the
\* configuration lists no attributes; when attributes are configured a
\* returned value is a table, never None.
C6_AbsentAttributes ==
  ret.op = "_load_attributes" =>
    /\ cfg.camels_attributes = <<>> =>
         /\ ret.outcome = "return"
         /\ ret.value.kind = "None"
         /\ io = <<>>
    /\ (cfg.camels_attributes # <<>> /\ ret.outcome = "return") =>
         ret.value.kind = "DataFrame"

C6_Witness ==
  /\ Returned("_load_attributes")
  /\ cfg.camels_attributes = <<>>
  /\ ret.value.kind = "None"
  /\ DateColumns \subseteq FileAttributes

\* C7: when the configured attribute list A is not empty and the file has
\* every attribute of A, the table CamelsCL._load_attributes returns has
\* exactly the columns A, each once: the record period columns are dropped
\* like any other column that A does not name.
C7_ConfiguredColumns ==
  (Returned("_load_attributes") /\ cfg.camels_attributes # <<>>
     /\ ConfiguredAttributes \subseteq FileAttributes) =>
    /\ SeqToSet(ret.value.columns) = ConfiguredAttributes
    /\ Len(ret.value.columns) = Cardinality(ConfiguredAttributes)

C7_Witness ==
  /\ Returned("_load_attributes")
  /\ cfg.camels_attributes = <<"geol_class", "area">>
  /\ ret.value.columns = <<"area", "geol_class">>
  /\ Len(fs.attributes.rows) = 4

RowsFor(basins) ==
  IF basins # <<>> THEN FileBasins \cap SeqToSet(basins) ELSE FileBasins

\* C8: load_camels_cl_attributes with a non-empty basin list returns exactly
\* the rows of the file's basins that are in the list, and with the empty
\* list a row for every basin of the file, each row once; the table
\* CamelsCL._load_attributes returns has the same rows for self.basins, so
\* with a non-empty self.basins it holds only rows of requested basins.
C8_BasinRows ==
  /\ Returned("load_camels_cl_attributes") =>
       /\ SeqToSet(ret.value.index) = RowsFor(ret.args.basins)
       /\ Len(ret.value.index) = Cardinality(RowsFor(ret.args.basins))
  /\ (Returned("_load_attributes") /\ ret.value.kind = "DataFrame") =>
       /\ SeqToSet(ret.value.index) = RowsFor(ret.args.basins)
       /\ ret.args.basins # <<>> =>
            SeqToSet(ret.value.index) \subseteq SeqToSet(ret.args.basins)

C8_Witness ==
  /\ Returned("load_camels_cl_attributes")
  /\ ret.args.basins = <<"b1", "b4">>
  /\ fs.attributes.basins = <<"b1", "b2", "b3">>
  /\ ret.value.index = <<"b1">>

TimeseriesCall == ret.op \in {"load_camels_cl_timeseries", "_load_basin_data"}

HasWord(msg, w) == \E i \in 1..Len(msg) : msg[i] = w

\* C9: when the data directory has no directory 'preprocessed', loading a
\* basin's time series fails, for every basin, with an error whose message
\* has the word "preprocessed"; the only file system access is the one
\* directory check (no per-basin file is opened, the check is not repeated)
\* and no call changes the data directory.
C9_MissingPreprocessed ==
  /\ [](TimeseriesCall /\ fs.preprocessed # "dir" =>
          /\ ret.outcome = "raise"
          /\ ret.exc = "FileNotFoundError"
          /\ HasWord(ret.msg, "preprocessed")
          /\ io = << <<"is_dir", cfg.data_dir \o "/preprocessed">> >>)
  /\ [][fs' = fs]_vars

C9_Witness ==
  /\ ret.op = "_load_basin_data"
  /\ fs.preprocessed = "absent"
  /\ ret.outcome = "raise"
  /\ ret.args.basin = "b1"

ClassOfKey ==
  [k \in {"camels_us", "camels_gb", "hourly_camels_us", "camels_cl"} |->
     CASE k = "camels_us" -> "CamelsUS"
       [] k = "camels_gb" -> "CamelsGB"
       [] k = "hourly_camels_us" -> "HourlyCamelsUS"
       [] k = "camels_cl" -> "CamelsCL"]

\* C10: get_dataset constructs, for each of the four known keys, exactly one
\* dataset of the matching class with cfg, is_train, period, basin,
\* additional_features, id_to_int and scaler as it received them; for every
\* other key it raises NotImplementedError, constructs nothing and leaves
\* the existing dataset as it was.
C10_Dispatch ==
  /\ [](ret.op = "get_dataset" =>
          IF cfg.dataset \in DOMAIN ClassOfKey
            THEN /\ ret.outcome = "return"
                 /\ Len(ret.constructed) = 1
                 /\ ret.constructed[1].cls = ClassOfKey[cfg.dataset]
                 /\ ret.constructed[1].cfg = cfg
                 /\ ret.constructed[1].is_train = ret.args.is_train
                 /\ ret.constructed[1].period = ret.args.period
                 /\ ret.constructed[1].basin = ret.args.basin
                 /\ ret.constructed[1].additional_features = ret.args.additional_features
                 /\ ret.constructed[1].id_to_int = ret.args.id_to_int
                 /\ ret.constructed[1].scaler = ret.args.scaler
                 /\ ds = ret.constructed[1]
            ELSE /\ ret.outcome = "raise"
                 /\ ret.exc = "NotImplementedError"
                 /\ ret.constructed = <<>>)
  /\ [][(ret'.op = "get_dataset" /\ ret'.outcome = "raise") => ds' = ds]_vars

C10_Witness ==
  /\ Returned("get_dataset")
  /\ cfg.dataset = "camels_cl"
  /\ ds.cls = "CamelsCL"
  /\ ds.basin = "b1"
  /\ ds.scaler = << <<"mean", 1>> >>

(***************************************************************************)
(* get_model                                                               *)
(***************************************************************************)
\* the models of the modelzoo that support one frequency only
SINGLE_FREQ_MODELS == {"cudalstm", "ealstm", "lstm", "gru", "embcudalstm"}

ModelKeys ==
  {"cudalstm", "ealstm", "lstm", "gru", "embcudalstm", "mtslstm", "odelstm",
   "transformer", "GRU"}

FrequencyLists == { <<>>, <<"1D">>, <<"1D", "1H">> }

\* Model(cfg=cfg): the GRU is the model of this module, the other classes
\* take the configuration alike
Model_init(cls, c) ==
  IF cls = "GRU"
    THEN [cls |-> cls, cfg |-> c, input_size |-> GRU_init(c).input_size,
          hidden_size |-> GRU_init(c).hidden_size]
    ELSE [cls |-> cls, cfg |-> c]

multi_frequency_msg(c) ==
  <<"Model", c.model, "does", "not", "support", "multiple", "frequencies.">>

\* variant: the frequencies are checked after the model has been constructed
get_model_checks_late(c) ==
  LET Model == IF c.model = "cudalstm" THEN "CudaLSTM"
               ELSE IF c.model = "ealstm" THEN "EALSTM"
               ELSE IF c.model = "lstm" THEN "LSTM"
               ELSE IF c.model = "gru" THEN "GRU"
               ELSE IF c.model = "embcudalstm" THEN "EmbCudaLSTM"
               ELSE IF c.model = "mtslstm" THEN "MTSLSTM"
               ELSE IF c.model = "odelstm" THEN "ODELSTM"
               ELSE "NotImplementedError"
  IN  IF Model = "NotImplementedError"
        THEN [outcome |-> "raise", exc |-> "NotImplementedError",
              msg |-> <<c.model, "not", "implemented", "or", "not", "linked",
                        "in", "get_model()">>,
              constructed |-> <<>>]
      ELSE IF c.model \in SINGLE_FREQ_MODELS /\ Len(c.use_frequencies) > 1
        THEN [outcome |-> "raise", exc |-> "ValueError",
              msg |-> multi_frequency_msg(c),
              constructed |-> <<Model_init(Model, c)>>]
      ELSE [outcome |-> "return", exc |-> "", msg |-> <<>>,
            constructed |-> <<Model_init(Model, c)>>]

\* returns the outcome and the models constructed by the call
get_model(c) ==
  LET Model == IF c.model = "cudalstm" THEN "CudaLSTM"
               ELSE IF c.model = "ealstm" THEN "EALSTM"
               ELSE IF c.model = "lstm" THEN "LSTM"
               ELSE IF c.model = "gru" THEN "GRU"
               ELSE IF c.model = "embcudalstm" THEN "EmbCudaLSTM"
               ELSE IF c.model = "mtslstm" THEN "MTSLSTM"
               ELSE IF c.model = "odelstm" THEN "ODELSTM"
               ELSE "NotImplementedError"
  IN  IF c.model \in SINGLE_FREQ_MODELS /\ Len(c.use_frequencies) > 1
        THEN [outcome |-> "raise", exc |-> "ValueError",
              msg |-> multi_frequency_msg(c),
              constructed |-> <<>>]
      ELSE IF Model = "NotImplementedError"
        THEN [outcome |-> "raise", exc |-> "NotImplementedError",
              msg |-> <<c.model, "not", "implemented", "or", "not", "linked",
                        "in", "get_model()">>,
              constructed |-> <<>>]
      ELSE [outcome |-> "return", exc |-> "", msg |-> <<>>,
            constructed |-> <<Model_init(Model, c)>>]

\* the configurations of the model registry
RegistryConfigs ==
  { [BaseConfig EXCEPT !.model = m, !.use_frequencies = f, !.head = hd,
                       !.use_basin_id_encoding = e] :
      m \in ModelKeys, f \in FrequencyLists, hd \in HeadNames, e \in BOOLEAN }

InitModels ==
  /\ cfg \in RegistryConfigs
  /\ gru = NoModel
  /\ data = <<>>
  /\ gru_in = <<>>
  /\ pred = NoCall
  /\ head_out = <<>>
  /\ fs = DefaultFileSystem
  /\ ds = NoDataset
  /\ io = <<>>
  /\ ret = NoReturn
  /\ heap = InitialHeap
  /\ calls = <<>>

\* get_model(cfg)
GetModel ==
  /\ Idle
  /\ LET r == get_model(cfg)
     IN  /\ ret' = [op |-> "get_model", args |-> [cfg |-> cfg],
                    outcome |-> r.outcome, exc |-> r.exc, msg |-> r.msg,
                    value |-> [kind |-> IF r.outcome = "return" THEN "Model" ELSE "None"],
                    constructed |-> r.constructed]
         /\ gru' = IF r.constructed # <<>> /\ r.constructed[1].cls = "GRU"
                     THEN [constructed |-> TRUE,
                           input_size |-> r.constructed[1].input_size,
                           hidden_size |-> r.constructed[1].hidden_size]
                     ELSE gru
  /\ UNCHANGED <<cfg, data, gru_in, pred, head_out, fs, ds, io, callVars>>

NextModels == GetModel \/ ReleaseResult

SpecModels == InitModels /\ [][NextModels]_vars

ModelClassOfKey ==
  [k \in {"cudalstm", "ealstm", "lstm", "gru", "embcudalstm", "mtslstm", "odelstm"} |->
     CASE k = "cudalstm" -> "CudaLSTM"
       [] k = "ealstm" -> "EALSTM"
       [] k = "lstm" -> "LSTM"
       [] k = "gru" -> "GRU"
       [] k = "embcudalstm" -> "EmbCudaLSTM"
       [] k = "mtslstm" -> "MTSLSTM"
       [] k = "odelstm" -> "ODELSTM"]

\* C11: when cfg.model is a single-frequency model and more than one
\* frequency is configured, get_model raises the multi-frequency error and
\* no model has been constructed (not the "not implemented" error, and the
\* existing model is left as it was); with at most one frequency an unknown
\* key raises NotImplementedError and constructs nothing, and a known key
\* returns exactly one model, of the class of the key.
C11_GetModel ==
  /\ [](ret.op = "get_model" =>
          /\ (cfg.model \in SINGLE_FREQ_MODELS /\ Len(cfg.use_frequencies) > 1) =>
               /\ ret.outcome = "raise"
               /\ ret.exc = "ValueError"
               /\ HasWord(ret.msg, "frequencies.")
               /\ ret.constructed = <<>>
          /\ Len(cfg.use_frequencies) <= 1 =>
               IF cfg.model \in DOMAIN ModelClassOfKey
                 THEN /\ ret.outcome = "return"
                      /\ Len(ret.constructed) = 1
                      /\ ret.constructed[1].cls = ModelClassOfKey[cfg.model]
                      /\ ret.constructed[1].cfg = cfg
                 ELSE /\ ret.outcome = "raise"
                      /\ ret.exc = "NotImplementedError"
                      /\ ret.constructed = <<>>)
  /\ [][(ret'.op = "get_model" /\ ret'.outcome = "raise") => gru' = gru]_vars

C11_Witness ==
  /\ ret.op = "get_model"
  /\ cfg.model = "gru"
  /\ Len(cfg.use_frequencies) = 2
  /\ ret.exc = "ValueError"
  /\ ~gru.constructed

(***************************************************************************)
(* Sequences of calls, with the objects they are handed                    *)
(***************************************************************************)
\* the parameters of CamelsCL.__init__ bound for a call: an optional
\* argument the caller omits is bound to the parameter's default object
CamelsCL_bind(is_train, period, basin, given) ==
  [is_train |-> is_train, period |-> period, basin |-> basin,
   additional_features |->
     IF "additional_features" \in DOMAIN given THEN given["additional_features"]
     ELSE DefaultObject("CamelsCL.__init__", "additional_features"),
   id_to_int |->
     IF "id_to_int" \in DOMAIN given THEN given["id_to_int"]
     ELSE DefaultObject("CamelsCL.__init__", "id_to_int"),
   scaler |->
     IF "scaler" \in DOMAIN given THEN given["scaler"]
     ELSE DefaultObject("CamelsCL.__init__", "scaler")]

\* the parameter basins of load_camels_cl_attributes bound for a call
load_camels_cl_attributes_bind(given) ==
  IF "basins" \in DOMAIN given THEN given["basins"]
  ELSE DefaultObject("load_camels_cl_attributes", "basins")

\* variant: an empty restriction list is filled with the basins of the file
load_camels_cl_attributes_fills_list(f, data_dir, basins) ==
  [result |-> load_camels_cl_attributes(f, data_dir, basins),
   basins |-> IF basins = <<>> THEN f.attributes.basins ELSE basins,
   file |-> f.attributes]

\* load_camels_cl_attributes with what it leaves behind: its result, the
\* contents of the list it was passed and the contents of the file
load_camels_cl_attributes_effects(f, data_dir, basins) ==
  [result |-> load_camels_cl_attributes(f, data_dir, basins),
   basins |-> basins,
   file |-> f.attributes]

InitCalls ==
  /\ cfg \in {c \in DataConfigs : c.dataset = "camels_cl"}
  /\ fs \in FileSystems
  /\ ds = NoDataset
  /\ io = <<>>
  /\ ret = NoReturn
  /\ gru = NoModel
  /\ data = <<>>
  /\ gru_in = <<>>
  /\ pred = NoCall
  /\ head_out = <<>>
  /\ heap = InitialHeap
  /\ calls = <<>>

\* CamelsCL(cfg, is_train, period, ...), each optional argument either
\* omitted or an object the caller made for this call
CallCamelsCL ==
  /\ Len(calls) < MaxCalls
  /\ \E omitted \in SUBSET {"additional_features", "id_to_int", "scaler"} :
       LET n == Len(calls) + 1
           given == [p \in {"additional_features", "id_to_int", "scaler"} \ omitted |->
                       CallerObject(n, p)]
           a == CamelsCL_bind(TRUE, "train", "None", given)
           object == CamelsCL_init(cfg, a)
       IN  /\ ds' = object
           /\ calls' = Append(calls,
                [op |-> "CamelsCL",
                 passed |-> {given[p] : p \in DOMAIN given},
                 refs |-> {object.additional_features, object.id_to_int, object.scaler},
                 before |-> <<>>, file |-> fs.attributes,
                 result |-> [outcome |-> "return"]])
  /\ UNCHANGED <<cfg, fs, io, ret, heap, modelVars>>

\* load_camels_cl_attributes(data_dir) or load_camels_cl_attributes(data_dir,
\* basins) with a list of the caller
CallLoadAttributes ==
  /\ Len(calls) < MaxCalls
  /\ \E given \in {<<>>} \cup {[p \in {"basins"} |-> l] : l \in CallerLists} :
       LET basins == load_camels_cl_attributes_bind(given)
           e == load_camels_cl_attributes_effects(fs, cfg.data_dir, heap[basins])
       IN  /\ heap' = [heap EXCEPT ![basins] = e.basins]
           /\ fs' = [fs EXCEPT !.attributes = e.file]
           /\ io' = e.result.io
           /\ calls' = Append(calls,
                [op |-> "load_camels_cl_attributes",
                 passed |-> {given[p] : p \in DOMAIN given},
                 refs |-> {basins},
                 before |-> heap[basins], file |-> fs.attributes,
                 result |-> [outcome |-> e.result.outcome, exc |-> e.result.exc,
                             value |-> e.result.value]])
  /\ UNCHANGED <<cfg, ds, ret, modelVars>>

\* load_camels_cl_timeseries(data_dir, basin)
CallLoadTimeseries ==
  /\ Len(calls) < MaxCalls
  /\ \E basin \in Basins :
       LET r == load_camels_cl_timeseries(fs, cfg.data_dir, basin)
       IN  /\ io' = r.io
           /\ calls' = Append(calls,
                [op |-> "load_camels_cl_timeseries",
                 passed |-> {}, refs |-> {},
                 before |-> <<basin>>, file |-> fs.attributes,
                 result |-> [outcome |-> r.outcome, exc |-> r.exc, value |-> r.value]])
  /\ UNCHANGED <<cfg, fs, ds, ret, heap, modelVars>>

NextCalls == CallCamelsCL \/ CallLoadAttributes \/ CallLoadTimeseries

SpecCalls == InitCalls /\ [][NextCalls]_vars

\* C12: two calls share no mutable object, except one the caller passed to
\* both: no list or dict reachable from one call is reachable from another,
\* also when the optional arguments are omitted.
C12_NoSharedState ==
  \A i \in 1..Len(calls) : \A j \in 1..Len(calls) :
     i < j => (calls[i].refs \cap calls[j].refs) \subseteq
                (calls[i].passed \cap calls[j].passed)

AllNumeric(a) ==
  /\ a \notin DateColumns
  /\ \A b \in FileBasins : <<a, b>> \notin fs.attributes.text

\* a record period value of the file is text that is not a date
BadDate ==
  \E a \in DateColumns : \E b \in FileBasins : <<a, b>> \in fs.attributes.text

ColumnTypes ==
  \A a \in SeqToSet(ret.value.columns) :
     ret.value.dtypes[a] =
       (IF a \in DateColumns THEN "datetime64"
        ELSE IF AllNumeric(a) THEN "float64" ELSE "object")

\* C14 as stated: with the file's rows as columns, every all-numeric column
\* is numeric, every column with a non-numeric value is passed through
\* unchanged, only the two record period columns are temporal, and a
\* non-numeric value never makes the load fail.
C14_Original ==
  (ret.op = "load_camels_cl_attributes" /\ DateColumns \subseteq FileAttributes) =>
    /\ ret.outcome = "return"
    /\ ColumnTypes

\* C14 amended: as stated, except that only non-numeric values outside the
\* two record period columns are tolerated: the load fails exactly when a
\* record period column is missing (KeyError) or holds a value that is not
\* a date (ValueError), never for a non-numeric value of another column.
C14_ColumnTypes ==
  ret.op = "load_camels_cl_attributes" =>
    /\ ret.outcome = "return" <=> (DateColumns \subseteq FileAttributes /\ ~BadDate)
    /\ ret.outcome = "return" => ColumnTypes
    /\ ret.outcome = "raise" =>
         ret.exc = (IF DateColumns \subseteq FileAttributes THEN "ValueError"
                                                            ELSE "KeyError")

C14_Witness ==
  /\ Returned("load_camels_cl_attributes")
  /\ ret.value.columns = <<"area", "record_period_start", "record_period_end">>
  /\ ret.value.dtypes["area"] = "object"
  /\ ret.value.dtypes["record_period_end"] = "datetime64"
  /\ <<"area", "b3">> \in fs.attributes.text

(***************************************************************************)
(* The mapping returned by forward                                         *)
(***************************************************************************)
\* C15: the mapping forward returns has the keys of the head's mapping and
\* the key h_n, and no other; every key of the head's mapping has the head's
\* value, so a head that returns h_n replaces the final hidden state; the
\* input mapping holds after the call, also a failed one, what it was
\* passed with.
C15_ReturnedKeys ==
  Called =>
    /\ data = calls[1].data
    /\ pred.status = "ok" =>
         /\ DOMAIN pred.value = {"h_n"} \cup DOMAIN head_out
         /\ \A k \in DOMAIN head_out : pred.value[k] = head_out[k]

C15_Witness ==
  /\ pred.status = "ok"
  /\ DOMAIN head_out = {"y_hat", "h_n"}
  /\ pred.value["h_n"] = head_out["h_n"]
  /\ DOMAIN data = {"x_d", "x_s", "x_one_hot"}
  /\ BatchSize = 2

====
